---- MODULE Spec2Model ----
\* A model of pyteal's ABI Router (src/pyteal/ast/router.py): the CallConfig /
\* MethodConfig guards, the handler wrapping (argument marshaling), the two
\* dispatch-tree builders and the Router's signature <-> selector registry.
EXTENDS Integers, Sequences, FiniteSets, TLC

\* ---------------------------------------------------------------- bounds

\* application ids a guard is evaluated on: 0 (creation) .. MaxAppId
MaxAppId == 2

\* parameter lists wrap_handler is applied to: up to MaxDirectArgs direct and
\* MaxTxnArgs transaction parameters, in every interleaving
MaxDirectArgs == 17
MaxTxnArgs == 2

\* the values a 4-byte selector takes in the model
SelectorSpace == 4

\* registrations accepted by one Router
MaxMethods == 2

\* ------------------------------------------------------------ CallConfig

NEVER == 0
CALL == 1
CREATE == 2
ALL == 3

CallConfig == {NEVER, CALL, CREATE, ALL}

\* OnComplete (pyteal.ast.app.OnComplete), the on_completion values of a call
NoOp == 0
OptIn == 1
CloseOut == 2
ClearState == 3
UpdateApplication == 4
DeleteApplication == 5

OnComplete == {NoOp, OptIn, CloseOut, ClearState, UpdateApplication, DeleteApplication}

\* ----------------------------------------------------------- expressions
\* A guard is a Python int 0 / 1 or a pyteal Expr.  Both are records here; the
\* int constants carry op = "int", everything else is an Expr node.

IntConst(v) == [op |-> "int", value |-> v]

\* Txn.on_completion() == oc
OnCompletionEq(oc) == [op |-> "eq", field |-> "on_completion", value |-> oc]

\* Txn.application_id() != Int(0)
ApplicationIdNeq(v) == [op |-> "neq", field |-> "application_id", value |-> v]

\* Txn.application_id() == Int(0)
ApplicationIdEq(v) == [op |-> "eq", field |-> "application_id", value |-> v]

\* And(l, r)
And(l, r) == [op |-> "And", left |-> l, right |-> r]

\* Or(*args)
Or(args) == [op |-> "Or", args |-> args]

\* `case Expr()` of the match statements
IsExpr(c) == c.op # "int"

IsConst(c, v) == c.op = "int" /\ c.value = v

\* CallConfig.condition_under_config with the CREATE case testing != 0
condition_under_config_SameTest(cc) ==
    CASE cc = NEVER -> IntConst(0)
      [] cc = CALL -> ApplicationIdNeq(0)
      [] cc = CREATE -> ApplicationIdNeq(0)
      [] cc = ALL -> IntConst(1)

\* CallConfig.condition_under_config
condition_under_config(cc) ==
    CASE cc = NEVER -> IntConst(0)
      [] cc = CALL -> ApplicationIdNeq(0)
      [] cc = CREATE -> ApplicationIdEq(0)
      [] cc = ALL -> IntConst(1)

\* ----------------------------------------------------------- MethodConfig

MethodConfig(no, oi, co, cs, ua, da) ==
    [no_op |-> no, opt_in |-> oi, close_out |-> co, clear_state |-> cs,
     update_application |-> ua, delete_application |-> da]

\* MethodConfig(), the dataclass defaults
DefaultMethodConfig == MethodConfig(CALL, NEVER, NEVER, NEVER, NEVER, NEVER)

\* every MethodConfig
AllMethodConfigs ==
    [no_op : CallConfig, opt_in : CallConfig, close_out : CallConfig,
     clear_state : CallConfig, update_application : CallConfig,
     delete_application : CallConfig]

\* astuple(self)
astuple(mc) ==
    <<mc.no_op, mc.opt_in, mc.close_out, mc.clear_state,
      mc.update_application, mc.delete_application>>

is_never(mc) == \A i \in 1..6 : astuple(mc)[i] = NEVER

arc4_compliant == MethodConfig(ALL, ALL, ALL, ALL, ALL, ALL)

is_arc4_compliant(mc) == mc = arc4_compliant

\* config_oc_pairs of approval_cond
config_oc_pairs(mc) ==
    << <<mc.no_op, NoOp>>, <<mc.opt_in, OptIn>>, <<mc.close_out, CloseOut>>,
       <<mc.update_application, UpdateApplication>>,
       <<mc.delete_application, DeleteApplication>> >>

\* the loop body of approval_cond: what the pair contributes to cond_list
cond_list_item(pair) ==
    LET config_cond == condition_under_config(pair[1])
    IN  IF IsExpr(config_cond) THEN <<And(OnCompletionEq(pair[2]), config_cond)>>
        ELSE IF IsConst(config_cond, 1) THEN <<OnCompletionEq(pair[2])>>
        ELSE <<>>

RECURSIVE cond_list(_)
cond_list(pairs) ==
    IF pairs = <<>> THEN <<>>
    ELSE cond_list_item(Head(pairs)) \o cond_list(Tail(pairs))

\* MethodConfig.approval_cond without the all-NEVER / all-ALL early returns and
\* with the NEVER kinds kept as bare on_completion tests
approval_cond_KeepNever(mc) ==
    LET pairs == config_oc_pairs(mc)
    IN  IF \A i \in 1..Len(pairs) : pairs[i][1] = NEVER THEN IntConst(0)
        ELSE IF \A i \in 1..Len(pairs) : pairs[i][1] = ALL THEN IntConst(1)
        ELSE Or([i \in 1..Len(pairs) |->
                    IF pairs[i][1] \in {CALL, CREATE}
                    THEN And(OnCompletionEq(pairs[i][2]), condition_under_config(pairs[i][1]))
                    ELSE OnCompletionEq(pairs[i][2])])

\* MethodConfig.approval_cond
approval_cond(mc) ==
    LET pairs == config_oc_pairs(mc)
    IN  IF \A i \in 1..Len(pairs) : pairs[i][1] = NEVER THEN IntConst(0)
        ELSE IF \A i \in 1..Len(pairs) : pairs[i][1] = ALL THEN IntConst(1)
        ELSE Or(cond_list(pairs))

\* MethodConfig.clear_state_cond
clear_state_cond(mc) == condition_under_config(mc.clear_state)

\* ------------------------------------------------- evaluation of a guard
\* What the AVM computes for a guard on a transaction txn = [on_completion,
\* application_id]: 1 or 0.

TxnField(txn, f) == IF f = "on_completion" THEN txn.on_completion ELSE txn.application_id

EvalLeaf(e, txn) ==
    CASE e.op = "int" -> e.value
      [] e.op = "eq" -> IF TxnField(txn, e.field) = e.value THEN 1 ELSE 0
      [] e.op = "neq" -> IF TxnField(txn, e.field) # e.value THEN 1 ELSE 0

EvalTerm(e, txn) ==
    IF e.op = "And"
    THEN IF EvalLeaf(e.left, txn) = 1 /\ EvalLeaf(e.right, txn) = 1 THEN 1 ELSE 0
    ELSE EvalLeaf(e, txn)

EvalGuard(e, txn) ==
    IF e.op = "Or"
    THEN IF \E i \in 1..Len(e.args) : EvalTerm(e.args[i], txn) = 1 THEN 1 ELSE 0
    ELSE EvalTerm(e, txn)

\* ------------------------------------------------------- handler wrapping

\* pyteal.config.METHOD_ARG_NUM_CUTOFF
METHOD_ARG_NUM_CUTOFF == 15

\* A handler as wrap_handler sees it: its Python type, what type_of() reports,
\* whether is_abi_routable() holds, whether an Expr has_return(), and its
\* parameter list, one kind per parameter: "txn" for an abi.Transaction,
\* "direct" for every other ABI type.  A parameter is named by its 0-based
\* position in the list.
Handler(type, name, routable, args, returns, has_ret) ==
    [type |-> type, name |-> name, abi_routable |-> routable, args |-> args,
     returns |-> returns, has_return |-> has_ret]

\* the synthesized abi.Tuple instance put at the end of app_arg_vals
TupleArg == -1

Instr(op, target, source) == [op |-> op, target |-> target, source |-> source]

\* [i for i in xs if keep(i)] over parameter positions
RECURSIVE Filter(_, _, _)
Filter(xs, args, kind) ==
    IF xs = <<>> THEN <<>>
    ELSE (IF args[Head(xs) + 1] = kind THEN <<Head(xs)>> ELSE <<>>)
         \o Filter(Tail(xs), args, kind)

\* arg_vals: one instance per parameter, in declared order
arg_vals(h) == [i \in 1..Len(h.args) |-> i - 1]

\* the parameters that appear in the application args (line 367)
direct_arg_vals(h) == Filter(arg_vals(h), h.args, "direct")

\* the transaction parameters (line 373)
txn_arg_vals(h) == Filter(arg_vals(h), h.args, "txn")

tuplify(h) == Len(direct_arg_vals(h)) > METHOD_ARG_NUM_CUTOFF

\* xs[n:] and xs[:n] of Python, n >= 0
SliceFrom(xs, n) == SubSeq(xs, n + 1, Len(xs))
SliceTo(xs, n) == SubSeq(xs, 1, IF n < Len(xs) THEN n ELSE Len(xs))

\* the members of the synthesized tuple (lines 379-381)
last_arg_specs_grouped(h) ==
    IF tuplify(h) THEN SliceFrom(direct_arg_vals(h), METHOD_ARG_NUM_CUTOFF - 1) ELSE <<>>

\* app_arg_vals after the tuple-ification (lines 378-386)
app_arg_vals(h) ==
    IF tuplify(h)
    THEN Append(SliceTo(direct_arg_vals(h), METHOD_ARG_NUM_CUTOFF - 1), TupleArg)
    ELSE direct_arg_vals(h)

\* decode_instructions reading Txn.application_args[i] instead of [i + 1]
decode_instructions_Slot0(h) ==
    [j \in 1..Len(app_arg_vals(h)) |-> Instr("decode", app_arg_vals(h)[j], j - 1)]

\* app_arg_vals[i].decode(Txn.application_args[i + 1]) (lines 389-392);
\* source is the application-args slot
decode_instructions(h) ==
    [j \in 1..Len(app_arg_vals(h)) |-> Instr("decode", app_arg_vals(h)[j], j)]

\* txn_decode_instructions subtracting Int(txn_relative_pos - i - 1)
txn_decode_instructions_OffByOne(h) ==
    LET txn_relative_pos == Len(txn_arg_vals(h))
    IN  [j \in 1..Len(txn_arg_vals(h)) |->
            Instr("set", txn_arg_vals(h)[j], txn_relative_pos - (j - 1) - 1)]

\* txn_arg_vals[i].set(Txn.group_index() - Int(txn_relative_pos - i))
\* (lines 395-403); source is the amount subtracted from the group index
txn_decode_instructions(h) ==
    LET txn_relative_pos == Len(txn_arg_vals(h))
    IN  [j \in 1..Len(txn_arg_vals(h)) |->
            Instr("set", txn_arg_vals(h)[j], txn_relative_pos - (j - 1))]

\* tuple_abi_args (lines 408-410): a slice of arg_vals, not of the direct ones
tuple_abi_args(h) == SliceFrom(arg_vals(h), METHOD_ARG_NUM_CUTOFF - 1)

\* last_tuple_arg[i].store_into(tuple_abi_args[i]) (lines 412-415); source is
\* the tuple index
de_tuple_instructions(h) ==
    IF tuplify(h)
    THEN [j \in 1..Len(tuple_abi_args(h)) |->
            Instr("store_into", tuple_abi_args(h)[j], j - 1)]
    ELSE <<>>

\* what wrap_handler hands back: the error it raised ("" for none), or the
\* Seq it built: the decode instructions, the handler invoked on call_args,
\* and what follows the invocation
Wrapped(error, invoked, instrs, call_args, members, epilogue) ==
    [error |-> error, invoked |-> invoked, decode_instructions |-> instrs,
     call_args |-> call_args, tuple_members |-> members, epilogue |-> epilogue]

Rejected(error) == Wrapped(error, "", <<>>, <<>>, <<>>, <<>>)

\* the bare-app-call half of wrap_handler (lines 311-344)
wrap_bare_handler(h) ==
    CASE h.type = "Expr" ->
            IF h.returns # "none" THEN Rejected("bare appcall handler should be TealType.none")
            ELSE Wrapped("", h.name, <<>>, <<>>, <<>>,
                         IF h.has_return THEN <<>> ELSE <<"Approve">>)
      [] h.type = "SubroutineFnWrapper" ->
            IF h.returns # "none"
            THEN Rejected("subroutine call should be returning TealType.none")
            ELSE IF Len(h.args) # 0
            THEN Rejected("subroutine call should take 0 arg for bare-app call")
            ELSE Wrapped("", h.name, <<>>, <<>>, <<>>, <<"Approve">>)
      [] h.type = "ABIReturnSubroutine" ->
            IF h.returns # "void"
            THEN Rejected("abi-returning subroutine call should be returning void")
            ELSE IF Len(h.args) # 0
            THEN Rejected("abi-returning subroutine call should take 0 arg for bare-app call")
            ELSE Wrapped("", h.name, <<>>, <<>>, <<>>, <<"Approve">>)
      [] OTHER -> Rejected("bare appcall can only accept: none type Expr, or Subroutine/ABIReturnSubroutine")

\* the ABI-method half of wrap_handler (lines 345-437)
wrap_method_handler(h) ==
    IF h.type # "ABIReturnSubroutine"
    THEN Rejected("method call should be only registering ABIReturnSubroutine")
    ELSE IF ~h.abi_routable
    THEN Rejected("method call ABIReturnSubroutine is not routable")
    ELSE Wrapped("", h.name,
                 decode_instructions(h) \o txn_decode_instructions(h)
                    \o de_tuple_instructions(h),
                 arg_vals(h),
                 last_arg_specs_grouped(h),
                 IF h.returns = "void" THEN <<"Approve">>
                 ELSE <<"store_into", "MethodReturn", "Approve">>)

\* ASTBuilder.wrap_handler
wrap_handler(is_method_call, h) ==
    IF ~is_method_call THEN wrap_bare_handler(h) ELSE wrap_method_handler(h)

\* ----------------------------------------------------- dispatch entries

CondNode(condition, branch) == [condition |-> condition, branch |-> branch]

\* Txn.application_args.length() == Int(0)
ArgsLengthEq(n) == [op |-> "eq", lhs |-> "application_args.length", int |-> n]

\* Txn.application_args[0] == MethodSignature(method_signature)
ArgsMethodEq(sig) == [op |-> "eq", lhs |-> "application_args[0]", method_signature |-> sig]

\* Seq(Assert(guard), wrapped_handler), or wrapped_handler alone with no guard
Body(asserted, wrapped_handler) == [asserted |-> asserted, handler |-> wrapped_handler]

\* Cond(*[[n.condition, n.branch] for n in nodes])
CondExpr(nodes) == [op |-> "Cond", nodes |-> nodes]

IsMethodEntry(node) == node.condition.lhs = "application_args[0]"

IsBareEntry(node) == node.condition.lhs = "application_args.length"

\* ------------------------------------------ OnCompleteAction, BareCallActions

\* action is the Optional handler: <<>> for None, <<h>> for a handler
OnCompleteAction(action, call_config) == [action |-> action, call_config |-> call_config]

\* __post_init__ testing only for a handler that has no permission
post_init_HandlerOnly(action, call_config) ==
    IF action # <<>> /\ call_config = NEVER
    THEN "action and call_config contradicts"
    ELSE ""

\* OnCompleteAction.__post_init__: the error raised, "" for none.
\* bool(call_config) is call_config # NEVER, bool(action) is action # None
post_init(action, call_config) ==
    IF (call_config # NEVER) # (action # <<>>)
    THEN "action and call_config contradicts"
    ELSE ""

never == OnCompleteAction(<<>>, NEVER)
create_only(f) == OnCompleteAction(<<f>>, CREATE)
call_only(f) == OnCompleteAction(<<f>>, CALL)
always(f) == OnCompleteAction(<<f>>, ALL)

\* OnCompleteAction.is_empty
oca_is_empty(oca) == oca.action = <<>> /\ oca.call_config = NEVER

\* BareCallActions.is_empty
bare_calls_is_empty(bc) ==
    /\ oca_is_empty(bc.close_out)
    /\ oca_is_empty(bc.clear_state)
    /\ oca_is_empty(bc.delete_application)
    /\ oca_is_empty(bc.no_op)
    /\ oca_is_empty(bc.opt_in)
    /\ oca_is_empty(bc.update_application)

\* oc_action_pair of approval_construction
oc_action_pair(bc) ==
    << <<NoOp, bc.no_op>>, <<OptIn, bc.opt_in>>, <<CloseOut, bc.close_out>>,
       <<UpdateApplication, bc.update_application>>,
       <<DeleteApplication, bc.delete_application>> >>

\* cond_body of one bare action (lines 219-234 and 247-269)
bare_cond_body(oca) ==
    LET wrapped_handler == wrap_handler(FALSE, oca.action[1])
    IN  IF oca.call_config = ALL THEN Body(<<>>, wrapped_handler)
        ELSE Body(<<condition_under_config(oca.call_config)>>, wrapped_handler)

RECURSIVE bare_conditions_n_branches(_)
bare_conditions_n_branches(pairs) ==
    IF pairs = <<>> THEN <<>>
    ELSE (IF oca_is_empty(Head(pairs)[2]) THEN <<>>
          ELSE <<CondNode(OnCompletionEq(Head(pairs)[1]), bare_cond_body(Head(pairs)[2]))>>)
         \o bare_conditions_n_branches(Tail(pairs))

\* BareCallActions.approval_construction: <<>> for None, else <<Cond(...)>>
approval_construction(bc) ==
    IF \A i \in 1..5 : oca_is_empty(oc_action_pair(bc)[i][2]) THEN <<>>
    ELSE <<CondExpr(bare_conditions_n_branches(oc_action_pair(bc)))>>

\* BareCallActions.clear_state_construction: <<>> for None, else the body
clear_state_construction(bc) ==
    IF oca_is_empty(bc.clear_state) THEN <<>>
    ELSE <<bare_cond_body(bc.clear_state)>>

\* a wrap_handler call of the two constructions raises
bare_calls_raise(bc) ==
    \E oca \in {bc.no_op, bc.opt_in, bc.close_out, bc.clear_state,
                bc.update_application, bc.delete_application} :
        ~oca_is_empty(oca) /\ wrap_handler(FALSE, oca.action[1]).error # ""

\* ----------------------------------------------------------------- Router

\* an insertion-ordered dict: a sequence of <<key, value>> pairs
DictKeys(d) == {d[i][1] : i \in 1..Len(d)}

DictKeyList(d) == [i \in 1..Len(d) |-> d[i][1]]

DictIndex(d, k) == CHOOSE i \in 1..Len(d) : d[i][1] = k

DictGet(d, k) == d[DictIndex(d, k)][2]

\* d[k] = v: replaces the value of a key already there, else appends the pair
DictSet(d, k, v) ==
    IF k \in DictKeys(d) THEN [d EXCEPT ![DictIndex(d, k)] = <<k, v>>]
    ELSE Append(d, <<k, v>>)

\* ABIReturnSubroutine.method_signature(overriding_name): name(args)returns
NoName == ""

method_signature(method_call, overriding_name) ==
    <<IF overriding_name = NoName THEN method_call.name ELSE overriding_name,
      method_call.args, method_call.returns>>

\* bytes(method_signature, "utf-8"), one code per part of the signature
NameCode(name) ==
    CASE name = "add" -> 1
      [] name = "pay" -> 2
      [] name = "raw" -> 3
      [] OTHER -> 4

RECURSIVE ArgCodes(_)
ArgCodes(args) ==
    IF args = <<>> THEN 0
    ELSE (IF Head(args) = "txn" THEN 2 ELSE 1) + 2 + ArgCodes(Tail(args))

SignatureBytes(sig) == NameCode(sig[1]) + ArgCodes(sig[2]) + (IF sig[3] = "void" THEN 0 ELSE 1)

\* encoding.checksum(...)[:4]: a digest cut down to SelectorSpace values
checksum4(sig) == SignatureBytes(sig) % SelectorSpace

\* `method_signature in self.method_sig_to_selector`
signature_registered(r, sig) == sig \in DictKeys(r.method_sig_to_selector)

\* the selector test skipped
selector_registered_Skipped(r, sel) == FALSE

\* `method_selector in self.method_selector_to_sig`
selector_registered(r, sel) == sel \in DictKeys(r.method_selector_to_sig)

\* add_method_to_ast putting the node in front
add_method_to_ast_Prepend(ast, sig, guard, h) ==
    LET walk_in_cond == ArgsMethodEq(sig)
        wrapped_handler == wrap_handler(TRUE, h)
    IN  IF IsConst(guard, 0) THEN [ast |-> ast, error |-> ""]
        ELSE IF wrapped_handler.error # "" THEN [ast |-> ast, error |-> wrapped_handler.error]
        ELSE IF IsExpr(guard)
        THEN [ast |-> <<CondNode(walk_in_cond, Body(<<guard>>, wrapped_handler))>> \o ast,
              error |-> ""]
        ELSE [ast |-> <<CondNode(walk_in_cond, Body(<<>>, wrapped_handler))>> \o ast,
              error |-> ""]

\* add_method_to_ast leaving out the Assert an expression guard is given
add_method_to_ast_NoGuard(ast, sig, guard, h) ==
    LET walk_in_cond == ArgsMethodEq(sig)
        wrapped_handler == wrap_handler(TRUE, h)
    IN  IF IsConst(guard, 0) THEN [ast |-> ast, error |-> ""]
        ELSE IF wrapped_handler.error # "" THEN [ast |-> ast, error |-> wrapped_handler.error]
        ELSE [ast |-> Append(ast, CondNode(walk_in_cond, Body(<<>>, wrapped_handler))),
              error |-> ""]

\* ASTBuilder.add_method_to_ast on the list ast: the list afterwards and the
\* error raised, "" for none
add_method_to_ast(ast, sig, guard, h) ==
    LET walk_in_cond == ArgsMethodEq(sig)
        wrapped_handler == wrap_handler(TRUE, h)
    IN  IF IsConst(guard, 0) THEN [ast |-> ast, error |-> ""]
        ELSE IF wrapped_handler.error # "" THEN [ast |-> ast, error |-> wrapped_handler.error]
        ELSE IF IsExpr(guard)
        THEN [ast |-> Append(ast, CondNode(walk_in_cond, Body(<<guard>>, wrapped_handler))),
              error |-> ""]
        ELSE [ast |-> Append(ast, CondNode(walk_in_cond, Body(<<>>, wrapped_handler))),
              error |-> ""]

\* program_construction building a Cond of no entries
program_construction_NoCheck(ast) == [error |-> "", program |-> <<CondExpr(ast)>>]

\* ASTBuilder.program_construction: the error raised, or the Cond returned
program_construction(ast) ==
    IF ast = <<>>
    THEN [error |-> "ABIRouter: Cannot build program with an empty AST", program |-> <<>>]
    ELSE [error |-> "", program |-> <<CondExpr(ast)>>]

\* Router.contract_construct: the registered signatures, in dict order
contract_construct(r) == DictKeyList(r.method_sig_to_selector)

\* the Router's fields as one value
RouterOf(a, c, s2s, sel2s) ==
    [approval_ast |-> a, clear_state_ast |-> c,
     method_sig_to_selector |-> s2s, method_selector_to_sig |-> sel2s]

\* Router.__init__ given bare_calls: <<>> for None, <<bc>> for a BareCallActions
router_init(bare_calls) ==
    LET seeded == bare_calls # <<>> /\ ~bare_calls_is_empty(bare_calls[1])
        bare_call_approval == IF seeded THEN approval_construction(bare_calls[1]) ELSE <<>>
        bare_call_clear == IF seeded THEN clear_state_construction(bare_calls[1]) ELSE <<>>
    IN  RouterOf(
            IF bare_call_approval # <<>>
            THEN <<CondNode(ArgsLengthEq(0), bare_call_approval[1])>> ELSE <<>>,
            IF bare_call_clear # <<>>
            THEN <<CondNode(ArgsLengthEq(0), bare_call_clear[1])>> ELSE <<>>,
            <<>>, <<>>)

\* what add_method_handler raises before it touches the router (lines 520-537)
registration_error(r, method_call, method_signature_, method_selector, mc) ==
    IF method_call.type # "ABIReturnSubroutine"
    THEN "for adding method handler, must be ABIReturnSubroutine"
    ELSE IF is_never(mc) THEN "registered method is never executed"
    ELSE IF signature_registered(r, method_signature_)
    THEN "re-registering method detected"
    ELSE IF selector_registered(r, method_selector)
    THEN "re-registering method has hash collision"
    ELSE ""

\* the registry insertion writing the signature-to-selector map alone
registry_insert_OneWay(r, method_signature_, method_selector) ==
    [r EXCEPT
        !.method_sig_to_selector = DictSet(@, method_signature_, method_selector)]

\* lines 538-539
registry_insert(r, method_signature_, method_selector) ==
    [r EXCEPT
        !.method_sig_to_selector = DictSet(@, method_signature_, method_selector),
        !.method_selector_to_sig = DictSet(@, method_selector, method_signature_)]

\* the all-ALL short-circuit feeding the approval tree alone
feed_trees_ApprovalOnly(r, method_signature_, mc, method_call) ==
    LET arc4 == is_arc4_compliant(mc)
        method_approval_cond == IF arc4 THEN IntConst(1) ELSE approval_cond(mc)
        method_clear_state_cond == IF arc4 THEN IntConst(0) ELSE clear_state_cond(mc)
        a == add_method_to_ast(r.approval_ast, method_signature_,
                               method_approval_cond, method_call)
        c == add_method_to_ast(r.clear_state_ast, method_signature_,
                               method_clear_state_cond, method_call)
    IN  IF a.error # "" THEN [router |-> r, error |-> a.error]
        ELSE IF c.error # ""
        THEN [router |-> [r EXCEPT !.approval_ast = a.ast], error |-> c.error]
        ELSE [router |-> [r EXCEPT !.approval_ast = a.ast, !.clear_state_ast = c.ast],
              error |-> ""]

\* lines 541-553: the method fed to the approval and then the clear-state tree
feed_trees(r, method_signature_, mc, method_call) ==
    LET arc4 == is_arc4_compliant(mc)
        method_approval_cond == IF arc4 THEN IntConst(1) ELSE approval_cond(mc)
        method_clear_state_cond == IF arc4 THEN IntConst(1) ELSE clear_state_cond(mc)
        a == add_method_to_ast(r.approval_ast, method_signature_,
                               method_approval_cond, method_call)
        c == add_method_to_ast(r.clear_state_ast, method_signature_,
                               method_clear_state_cond, method_call)
    IN  IF a.error # "" THEN [router |-> r, error |-> a.error]
        ELSE IF c.error # ""
        THEN [router |-> [r EXCEPT !.approval_ast = a.ast], error |-> c.error]
        ELSE [router |-> [r EXCEPT !.approval_ast = a.ast, !.clear_state_ast = c.ast],
              error |-> ""]

\* add_method_handler writing the signature into the registry before the
\* selector collision test
add_method_handler_on_InsertFirst(r, method_call, overriding_name, mc) ==
    LET method_signature_ == method_signature(method_call, overriding_name)
        method_selector == checksum4(method_signature_)
        error == registration_error(r, method_call, method_signature_, method_selector, mc)
    IN  IF error = "re-registering method has hash collision"
        THEN [router |-> [r EXCEPT !.method_sig_to_selector =
                            DictSet(@, method_signature_, method_selector)],
              error |-> error]
        ELSE IF error # "" THEN [router |-> r, error |-> error]
        ELSE feed_trees(registry_insert(r, method_signature_, method_selector),
                        method_signature_, mc, method_call)

\* Router.add_method_handler on the router r: the router afterwards and the
\* error raised, "" for none
add_method_handler_on(r, method_call, overriding_name, mc) ==
    LET method_signature_ == method_signature(method_call, overriding_name)
        method_selector == checksum4(method_signature_)
        error == registration_error(r, method_call, method_signature_, method_selector, mc)
    IN  IF error # "" THEN [router |-> r, error |-> error]
        ELSE feed_trees(registry_insert(r, method_signature_, method_selector),
                        method_signature_, mc, method_call)

\* Router.build_program on the router r: the tuple returned, or the error raised
build_program_on(r) ==
    LET ap == program_construction(r.approval_ast)
        csp == program_construction(r.clear_state_ast)
    IN  IF ap.error # "" THEN [error |-> ap.error, returned |-> <<>>]
        ELSE IF csp.error # "" THEN [error |-> csp.error, returned |-> <<>>]
        ELSE [error |-> "",
              returned |-> <<[approval_program |-> ap.program[1],
                              clear_state_program |-> csp.program[1],
                              contract |-> contract_construct(r)]>>]

\* ------------------------------------------- the approval program on a call
\* What the program program_construction returns does on an application call
\* [application_args, on_completion, application_id], application_args[1]
\* being the selector the call carries. A Cond tests its conditions in order,
\* runs the branch of the first that holds and fails when none holds; an
\* Assert fails on 0; reading application_args[0] of a call with no argument
\* fails.

Result(ran, of) == [ran |-> ran, of |-> of]

\* the value of a CondNode condition: 1 or 0, or -1 when evaluating it fails
condition_value(c, app_call) ==
    IF "lhs" \notin DOMAIN c THEN EvalGuard(c, app_call)
    ELSE IF c.lhs = "application_args.length"
    THEN IF Len(app_call.application_args) = c.int THEN 1 ELSE 0
    ELSE IF app_call.application_args = <<>> THEN -1
    ELSE IF app_call.application_args[1] = checksum4(c.method_signature) THEN 1 ELSE 0

\* the conditions of a Cond that are reached and do not evaluate to 0
cond_stops(nodes, app_call) ==
    {i \in 1..Len(nodes) : condition_value(nodes[i].condition, app_call) # 0}

cond_first(nodes, app_call) ==
    CHOOSE i \in cond_stops(nodes, app_call) :
        \A j \in cond_stops(nodes, app_call) : i <= j

\* Seq(Assert(guard), handler), or the handler alone
run_body(body, app_call, path) ==
    IF body.asserted # <<>> /\ EvalGuard(body.asserted[1], app_call) = 0
    THEN Result("assertion", path)
    ELSE Result("handler", path)

\* the Cond of the bare calls, whose branches are bodies
run_bare_cond(nodes, app_call, path) ==
    IF cond_stops(nodes, app_call) = {} THEN Result("no match", path)
    ELSE LET i == cond_first(nodes, app_call)
         IN  run_body(nodes[i].branch, app_call, Append(path, i))

\* the program: path is the entry taken, and the entry inside it
run_program(program, app_call) ==
    LET nodes == program.nodes
    IN  IF cond_stops(nodes, app_call) = {} THEN Result("no match", <<>>)
        ELSE LET i == cond_first(nodes, app_call)
             IN  IF condition_value(nodes[i].condition, app_call) = -1
                 THEN Result("no argument", <<i>>)
                 ELSE IF "nodes" \in DOMAIN nodes[i].branch
                 THEN run_bare_cond(nodes[i].branch.nodes, app_call, <<i>>)
                 ELSE run_body(nodes[i].branch, app_call, <<i>>)

\* ------------------------------------------------------------------ state

VARIABLES
    pc,                      \* which operation was applied last
    method_config,           \* the MethodConfig a guard is derived from
    cond,                    \* the guard approval_cond / clear_state_cond returned
    txn,                     \* the transaction the guard is evaluated on
    verdict,                 \* what the guard evaluates to on txn
    is_method_call,          \* wrap_handler's first argument
    handler,                 \* wrap_handler's second argument
    wrapped,                 \* what wrap_handler returned
    approval_ast,            \* Router.approval_ast.conditions_n_branches
    clear_state_ast,         \* Router.clear_state_ast.conditions_n_branches
    method_sig_to_selector,  \* Router.method_sig_to_selector
    method_selector_to_sig,  \* Router.method_selector_to_sig
    outcome,                 \* the last call: its name, the error it raised
                             \* ("" for none) and what it returned
    kwargs,                  \* the keyword arguments of OnCompleteAction(...)
    method_configs,          \* the method_config argument of every
                             \* add_method_handler call that returned, by signature
    call,                    \* the application call the approval program runs on
    result                   \* what the approval program did on that call

cond_vars == <<method_config, cond, txn, verdict>>
wrap_vars == <<is_method_call, handler, wrapped>>
router_vars == <<approval_ast, clear_state_ast, method_sig_to_selector,
                 method_selector_to_sig, outcome, method_configs>>
dispatch_vars == <<call, result>>

action_vars == <<kwargs>>

Outcome(op, error, returned) == [op |-> op, error |-> error, returned |-> returned]

\* the Router the state holds
Router ==
    RouterOf(approval_ast, clear_state_ast, method_sig_to_selector, method_selector_to_sig)

\* the state holds the Router r
RouterIs(r) ==
    /\ approval_ast = r.approval_ast
    /\ clear_state_ast = r.clear_state_ast
    /\ method_sig_to_selector = r.method_sig_to_selector
    /\ method_selector_to_sig = r.method_selector_to_sig

RouterIdle ==
    /\ RouterIs(router_init(<<>>))
    /\ outcome = Outcome("__init__", "", <<>>)
    /\ method_configs = <<>>

DispatchIdle ==
    /\ call = [application_args |-> <<>>, on_completion |-> NoOp, application_id |-> 0]
    /\ result = Result("", <<>>)

Txns == [on_completion : OnComplete, application_id : 0..MaxAppId]

CondIdle ==
    /\ method_config = DefaultMethodConfig
    /\ cond = IntConst(0)
    /\ txn = [on_completion |-> NoOp, application_id |-> 0]
    /\ verdict = 0

ActionIdle == kwargs = [action |-> <<>>, call_config |-> NEVER]

WrapIdle ==
    /\ is_method_call = FALSE
    /\ handler = Handler("Expr", "approve", FALSE, <<>>, "none", TRUE)
    /\ wrapped = Rejected("")

\* ------------------------------------------- guards of every MethodConfig

ApprovalCond ==
    /\ pc = "config"
    /\ cond' = approval_cond(method_config)
    /\ pc' = "approval_cond"
    /\ UNCHANGED <<method_config, txn, verdict>>
    /\ UNCHANGED <<wrap_vars, router_vars, action_vars, dispatch_vars>>

ClearStateCond ==
    /\ pc = "config"
    /\ cond' = clear_state_cond(method_config)
    /\ pc' = "clear_state_cond"
    /\ UNCHANGED <<method_config, txn, verdict>>
    /\ UNCHANGED <<wrap_vars, router_vars, action_vars, dispatch_vars>>

\* the guard run by the AVM on a transaction
Evaluate ==
    /\ pc \in {"approval_cond", "clear_state_cond"}
    /\ \E t \in Txns :
        /\ txn' = t
        /\ verdict' = EvalGuard(cond, t)
    /\ pc' = IF pc = "approval_cond" THEN "approval_evaluated" ELSE "clear_state_evaluated"
    /\ UNCHANGED <<method_config, cond>>
    /\ UNCHANGED <<wrap_vars, router_vars, action_vars, dispatch_vars>>

CondInit ==
    /\ pc = "config"
    /\ method_config \in AllMethodConfigs
    /\ cond = IntConst(0)
    /\ txn = [on_completion |-> NoOp, application_id |-> 0]
    /\ verdict = 0
    /\ WrapIdle
    /\ RouterIdle
    /\ ActionIdle
    /\ DispatchIdle

CondNext == ApprovalCond \/ ClearStateCond \/ Evaluate

\* ------------------------------------------- wrap_handler on every handler

\* every parameter list with d direct and k transaction parameters
RECURSIVE ArgLists(_, _)
ArgLists(d, k) ==
    IF d = 0 /\ k = 0 THEN {<<>>}
    ELSE (IF d > 0 THEN {Append(s, "direct") : s \in ArgLists(d - 1, k)} ELSE {})
         \cup (IF k > 0 THEN {Append(s, "txn") : s \in ArgLists(d, k - 1)} ELSE {})

MethodHandlers ==
    {Handler("ABIReturnSubroutine", "f", TRUE, args, ret, FALSE) :
        args \in UNION {ArgLists(d, k) : d \in 0..MaxDirectArgs, k \in 0..MaxTxnArgs},
        ret \in {"void", "uint64"}}

OtherHandlers ==
    {Handler("Expr", "approve", FALSE, <<>>, "none", TRUE),
     Handler("Expr", "seq", FALSE, <<>>, "none", FALSE),
     Handler("Expr", "int", FALSE, <<>>, "uint64", FALSE),
     Handler("SubroutineFnWrapper", "sub", FALSE, <<>>, "none", FALSE),
     Handler("SubroutineFnWrapper", "sub", FALSE, <<"direct">>, "none", FALSE),
     Handler("SubroutineFnWrapper", "sub", FALSE, <<>>, "uint64", FALSE),
     Handler("ABIReturnSubroutine", "raw", FALSE, <<"direct">>, "void", FALSE)}

WrapHandler ==
    /\ pc = "handler"
    /\ wrapped' = wrap_handler(is_method_call, handler)
    /\ pc' = "wrapped"
    /\ UNCHANGED <<is_method_call, handler>>
    /\ UNCHANGED <<cond_vars, router_vars, action_vars, dispatch_vars>>

WrapInit ==
    /\ pc = "handler"
    /\ is_method_call \in BOOLEAN
    /\ handler \in MethodHandlers \cup OtherHandlers
    /\ wrapped = Rejected("")
    /\ CondIdle
    /\ RouterIdle
    /\ ActionIdle
    /\ DispatchIdle

WrapNext == WrapHandler

\* ------------------------------------- OnCompleteAction(action, call_config)

\* the dataclass constructor: the fields are set, then __post_init__ runs
ConstructOnCompleteAction ==
    /\ pc = "kwargs"
    /\ LET error == post_init(kwargs.action, kwargs.call_config)
       IN  outcome' = Outcome("OnCompleteAction", error,
                              IF error = ""
                              THEN <<OnCompleteAction(kwargs.action, kwargs.call_config)>>
                              ELSE <<>>)
    /\ pc' = "constructed"
    /\ UNCHANGED <<approval_ast, clear_state_ast, method_sig_to_selector,
                   method_selector_to_sig>>
    /\ UNCHANGED <<kwargs, method_configs, cond_vars, wrap_vars, dispatch_vars>>

ActionInit ==
    /\ pc = "kwargs"
    /\ kwargs \in [action : {<<>>} \cup {<<h>> : h \in MethodHandlers \cup OtherHandlers},
                   call_config : CallConfig]
    /\ CondIdle
    /\ WrapIdle
    /\ RouterIdle
    /\ DispatchIdle

ActionNext == ConstructOnCompleteAction

\* ------------------------------------------------------- the Router's life

ApproveExpr == Handler("Expr", "approve", FALSE, <<>>, "none", TRUE)
SeqExpr == Handler("Expr", "seq", FALSE, <<>>, "none", FALSE)
IntExpr == Handler("Expr", "int", FALSE, <<>>, "uint64", FALSE)

\* the bare_calls arguments a Router is constructed with
BareCallInputs ==
    {<<>>} \cup
    {<<bc>> : bc \in
        [no_op : {never, create_only(ApproveExpr), always(SeqExpr)},
         opt_in : {never},
         close_out : {never},
         clear_state : {never, call_only(SeqExpr), always(ApproveExpr), always(IntExpr)},
         update_application : {never},
         delete_application : {never, call_only(ApproveExpr)}]}

\* the handlers, names and configs methods are registered with
RouterHandlers ==
    {Handler("ABIReturnSubroutine", "add", TRUE, <<"direct", "direct">>, "uint64", FALSE),
     Handler("ABIReturnSubroutine", "pay", TRUE, <<"txn", "direct">>, "void", FALSE),
     Handler("ABIReturnSubroutine", "raw", FALSE, <<"direct">>, "void", FALSE),
     Handler("SubroutineFnWrapper", "sub", FALSE, <<>>, "none", FALSE)}

OverridingNames == {NoName, "add"}

RouterConfigs ==
    {DefaultMethodConfig,
     arc4_compliant,
     MethodConfig(NEVER, NEVER, NEVER, NEVER, NEVER, NEVER),
     MethodConfig(NEVER, NEVER, NEVER, CALL, NEVER, NEVER),
     MethodConfig(ALL, CREATE, NEVER, ALL, NEVER, CALL)}

\* Router(name, bare_calls), for the bare_calls whose construction raises nothing
RouterInit ==
    /\ pc = "router"
    /\ \E bare_calls \in BareCallInputs :
        /\ bare_calls # <<>> => ~bare_calls_raise(bare_calls[1])
        /\ RouterIs(router_init(bare_calls))
    /\ outcome = Outcome("__init__", "", <<>>)
    /\ method_configs = <<>>
    /\ CondIdle
    /\ WrapIdle
    /\ ActionIdle
    /\ DispatchIdle

\* router.add_method_handler(method_call, overriding_name, method_config)
add_method_handler(method_call, overriding_name, mc) ==
    /\ pc = "router"
    /\ LET res == add_method_handler_on(Router, method_call, overriding_name, mc)
       IN  /\ Len(res.router.method_sig_to_selector) <= MaxMethods
           /\ approval_ast' = res.router.approval_ast
           /\ clear_state_ast' = res.router.clear_state_ast
           /\ method_sig_to_selector' = res.router.method_sig_to_selector
           /\ method_selector_to_sig' = res.router.method_selector_to_sig
           /\ outcome' = Outcome("add_method_handler", res.error, <<>>)
           /\ method_configs' =
                IF res.error = ""
                THEN Append(method_configs,
                            <<method_signature(method_call, overriding_name), mc>>)
                ELSE method_configs
    /\ UNCHANGED <<pc, cond_vars, wrap_vars, action_vars, dispatch_vars>>

AddMethodHandler ==
    \E method_call \in RouterHandlers, overriding_name \in OverridingNames,
       mc \in RouterConfigs :
        add_method_handler(method_call, overriding_name, mc)

\* router.build_program()
BuildProgram ==
    /\ pc = "router"
    /\ LET res == build_program_on(Router)
       IN  outcome' = Outcome("build_program", res.error, res.returned)
    /\ UNCHANGED <<approval_ast, clear_state_ast, method_sig_to_selector,
                   method_selector_to_sig, method_configs>>
    /\ UNCHANGED <<pc, cond_vars, wrap_vars, action_vars, dispatch_vars>>

Next == AddMethodHandler \/ BuildProgram

\* the calls the approval program is run on: ClearState calls run the
\* clear-state program
AppCalls ==
    [application_args : {<<>>} \cup {<<sel>> : sel \in 0..(SelectorSpace - 1)},
     on_completion : OnComplete \ {ClearState},
     application_id : 0..MaxAppId]

\* the approval program build_program returned, run on one call
ApprovalCall ==
    /\ pc = "router"
    /\ outcome.op = "build_program"
    /\ outcome.error = ""
    /\ \E app_call \in AppCalls :
        /\ call' = app_call
        /\ result' = run_program(outcome.returned[1].approval_program, app_call)
    /\ pc' = "called"
    /\ UNCHANGED <<router_vars, cond_vars, wrap_vars, action_vars>>

DispatchNext == AddMethodHandler \/ BuildProgram \/ ApprovalCall

vars == <<pc, method_config, cond, txn, verdict, is_method_call, handler, wrapped,
          approval_ast, clear_state_ast, method_sig_to_selector,
          method_selector_to_sig, outcome, kwargs, method_configs, call, result>>

Spec == RouterInit /\ [][Next]_vars

SpecCond == CondInit /\ [][CondNext]_vars

SpecWrap == WrapInit /\ [][WrapNext]_vars

SpecAction == ActionInit /\ [][ActionNext]_vars

SpecDispatch == RouterInit /\ [][DispatchNext]_vars

\* ----------------------------------------------------------------- claims

ApprovalKinds == {NoOp, OptIn, CloseOut, UpdateApplication, DeleteApplication}

\* the CallConfig a MethodConfig gives an on_completion kind
ConfigFor(mc, oc) ==
    CASE oc = NoOp -> mc.no_op
      [] oc = OptIn -> mc.opt_in
      [] oc = CloseOut -> mc.close_out
      [] oc = ClearState -> mc.clear_state
      [] oc = UpdateApplication -> mc.update_application
      [] oc = DeleteApplication -> mc.delete_application

\* a CallConfig permits a call on an application id
Permits(cc, app_id) ==
    \/ cc = ALL
    \/ cc = CALL /\ app_id # 0
    \/ cc = CREATE /\ app_id = 0

\* the position of the j-th (1-based) parameter of a kind, in declared order
NthOfKind(args, kind, j) ==
    CHOOSE p \in 0..(Len(args) - 1) :
        /\ args[p + 1] = kind
        /\ Cardinality({q \in 0..(p - 1) : args[q + 1] = kind}) = j - 1

CountOfKind(args, kind) == Cardinality({p \in 1..Len(args) : args[p] = kind})

IsDecode(i) == i.op = "decode"
IsSet(i) == i.op = "set"
IsStoreInto(i) == i.op = "store_into"

MethodWrapped == pc = "wrapped" /\ is_method_call /\ wrapped.error = ""

\* C3: for every MethodConfig, the guard approval_cond() returns is the
\* constant 0 exactly when the five approval kinds are all NEVER, the constant
\* 1 exactly when they are all ALL, and otherwise an Or with one term per
\* non-NEVER kind that holds on a transaction iff some non-NEVER kind equals
\* its on_completion and that kind's condition_under_config holds; it does not
\* depend on clear_state; and evaluated on a transaction of an approval kind it
\* yields 1 exactly when the kind's CallConfig permits the application id.
C3_ApprovalCondPermits ==
    pc \in {"approval_cond", "approval_evaluated"} =>
        LET live == {oc \in ApprovalKinds : ConfigFor(method_config, oc) # NEVER}
        IN  /\ (live = {}) <=> (cond = IntConst(0))
            /\ (\A oc \in ApprovalKinds : ConfigFor(method_config, oc) = ALL)
                    <=> (cond = IntConst(1))
            /\ IsExpr(cond) =>
                /\ cond.op = "Or"
                /\ Len(cond.args) = Cardinality(live)
                /\ \A t \in Txns :
                    (EvalGuard(cond, t) = 1) <=>
                        \E oc \in live :
                            /\ t.on_completion = oc
                            /\ EvalGuard(condition_under_config(
                                    ConfigFor(method_config, oc)), t) = 1
            /\ \A cc \in CallConfig :
                    approval_cond([method_config EXCEPT !.clear_state = cc]) = cond
            /\ (pc = "approval_evaluated" /\ txn.on_completion \in ApprovalKinds) =>
                    ((verdict = 1) <=>
                        Permits(ConfigFor(method_config, txn.on_completion),
                                txn.application_id))

\* C3 witness: a mixed config, evaluated on a creating OptIn call it permits
C3_Witness ==
    /\ pc = "approval_evaluated"
    /\ method_config.no_op = CALL
    /\ method_config.opt_in = CREATE
    /\ method_config.close_out = ALL
    /\ method_config.clear_state = CALL
    /\ txn.on_completion = OptIn
    /\ txn.application_id = 0
    /\ verdict = 1

\* C10: condition_under_config() is the constant 0 for NEVER and the constant 1
\* for ALL; for CALL it is an expression true exactly on application id # 0 and
\* for CREATE one true exactly on application id = 0, so on every application
\* id exactly one of the two holds.
C10_ConditionUnderConfig ==
    pc \in {"clear_state_cond", "clear_state_evaluated"} =>
        LET cc == method_config.clear_state
        IN  /\ (cc = NEVER) <=> (cond = IntConst(0))
            /\ (cc = ALL) <=> (cond = IntConst(1))
            /\ (cc \in {CALL, CREATE}) <=> IsExpr(cond)
            /\ (pc = "clear_state_evaluated" /\ cc = CALL) =>
                    ((verdict = 1) <=> (txn.application_id # 0))
            /\ (pc = "clear_state_evaluated" /\ cc = CREATE) =>
                    ((verdict = 1) <=> (txn.application_id = 0))
            /\ \A t \in Txns :
                    EvalGuard(condition_under_config(CALL), t)
                        + EvalGuard(condition_under_config(CREATE), t) = 1

\* C10 witness: the CREATE predicate evaluated on a creating call
C10_Witness ==
    /\ pc = "clear_state_evaluated"
    /\ method_config.clear_state = CREATE
    /\ txn.application_id = 0
    /\ verdict = 1

\* C4 (as claimed): with more direct parameters than the cutoff and any
\* transaction parameters, the last decode reads the tuple from slot
\* METHOD_ARG_NUM_CUTOFF, the tuple's members are the direct parameters from the
\* cutoff position onward, and destructuring step j stores tuple element j into
\* the j-th packed direct parameter, with as many steps as members.
C4_DestructureMatchesPacked ==
    (MethodWrapped /\ CountOfKind(handler.args, "direct") > METHOD_ARG_NUM_CUTOFF) =>
        LET d == CountOfKind(handler.args, "direct")
            packed == [j \in 1..(d - METHOD_ARG_NUM_CUTOFF + 1) |->
                        NthOfKind(handler.args, "direct", METHOD_ARG_NUM_CUTOFF - 1 + j)]
            decodes == SelectSeq(wrapped.decode_instructions, IsDecode)
            stores == SelectSeq(wrapped.decode_instructions, IsStoreInto)
        IN  /\ Len(decodes) = METHOD_ARG_NUM_CUTOFF
            /\ decodes[Len(decodes)] = Instr("decode", TupleArg, METHOD_ARG_NUM_CUTOFF)
            /\ wrapped.tuple_members = packed
            /\ Len(stores) = Len(packed)
            /\ \A j \in 1..Len(stores) :
                /\ stores[j].source = j - 1
                /\ stores[j].source < Len(wrapped.tuple_members)
                /\ stores[j].target = packed[j]
                /\ handler.args[stores[j].target + 1] = "direct"

\* C5: the i-th (0-based) of k transaction parameters is set to the transaction
\* at group index - (k - i), one set instruction per transaction parameter in
\* declared order, and no decode from an application-args slot targets a
\* transaction parameter.
C5_TxnArgOffsets ==
    MethodWrapped =>
        LET k == CountOfKind(handler.args, "txn")
            sets == SelectSeq(wrapped.decode_instructions, IsSet)
            decodes == SelectSeq(wrapped.decode_instructions, IsDecode)
        IN  /\ Len(sets) = k
            /\ \A j \in 1..Len(sets) :
                /\ sets[j].target = NthOfKind(handler.args, "txn", j)
                /\ sets[j].source = k - (j - 1)
            /\ \A j \in 1..Len(decodes) :
                decodes[j].target # TupleArg =>
                    handler.args[decodes[j].target + 1] = "direct"

\* C5 witness: two transaction parameters, the first one leading the list
C5_Witness ==
    /\ MethodWrapped
    /\ CountOfKind(handler.args, "txn") = 2
    /\ CountOfKind(handler.args, "direct") >= 1
    /\ handler.args[1] = "txn"
    /\ handler.args[Len(handler.args)] = "txn"

\* C6 (as claimed): with at most METHOD_ARG_NUM_CUTOFF direct parameters there
\* are exactly d decodes, from slots 1..d, and each direct parameter is decoded
\* from the slot numbered its parameter position + 1.
C6_SlotIsParameterPosition ==
    (MethodWrapped /\ CountOfKind(handler.args, "direct") <= METHOD_ARG_NUM_CUTOFF) =>
        LET decodes == SelectSeq(wrapped.decode_instructions, IsDecode)
        IN  /\ Len(decodes) = CountOfKind(handler.args, "direct")
            /\ \A j \in 1..Len(decodes) :
                /\ decodes[j].source = j
                /\ decodes[j].source = decodes[j].target + 1

\* C6 (amended): with at most METHOD_ARG_NUM_CUTOFF direct parameters there are
\* exactly d decodes, from slots 1..d, and the j-th direct parameter in declared
\* order is decoded from slot j: its parameter position + 1 less the number of
\* transaction parameters declared before it.
C6_SlotIsDirectIndex ==
    (MethodWrapped /\ CountOfKind(handler.args, "direct") <= METHOD_ARG_NUM_CUTOFF) =>
        LET decodes == SelectSeq(wrapped.decode_instructions, IsDecode)
        IN  /\ Len(decodes) = CountOfKind(handler.args, "direct")
            /\ \A j \in 1..Len(decodes) :
                LET p == decodes[j].target
                IN  /\ decodes[j].source = j
                    /\ p = NthOfKind(handler.args, "direct", j)
                    /\ decodes[j].source =
                        p + 1 - Cardinality({q \in 0..(p - 1) : handler.args[q + 1] = "txn"})

\* C6 witness: a transaction parameter declared before two direct ones
C6_Witness ==
    /\ MethodWrapped
    /\ Len(handler.args) = 3
    /\ handler.args = <<"txn", "direct", "direct">>

\* ---- the Router

AddRaised == outcome.op = "add_method_handler" /\ outcome.error # ""

NeverError == "registered method is never executed"
DuplicateError == "re-registering method detected"
CollisionError == "re-registering method has hash collision"

\* the signatures of a tree's method entries, in tree order
MethodSignatures(tree) ==
    LET Sig(n) == n.condition.method_signature
        RECURSIVE Walk(_)
        Walk(t) == IF t = <<>> THEN <<>>
                   ELSE (IF IsMethodEntry(Head(t)) THEN <<Sig(Head(t))>> ELSE <<>>)
                        \o Walk(Tail(t))
    IN  Walk(tree)

IsPrefix(a, b) == Len(a) <= Len(b) /\ SubSeq(b, 1, Len(a)) = a

\* C1: an add_method_handler call rejected for an all-NEVER config, for a
\* signature already registered or for a selector collision leaves both
\* registry maps and both trees as they were.
C1_RejectionLeavesRouter ==
    [][(/\ outcome'.op = "add_method_handler"
        /\ outcome'.error \in {NeverError, DuplicateError, CollisionError})
            => UNCHANGED <<method_sig_to_selector, method_selector_to_sig,
                           approval_ast, clear_state_ast>>]_vars

\* C1 witness: a collision rejected by a Router that holds a method
C1_Witness ==
    /\ outcome.op = "add_method_handler"
    /\ outcome.error = CollisionError
    /\ Len(method_sig_to_selector) >= 1
    /\ Len(approval_ast) >= 1

\* C2 (as claimed): every add_method_handler call that raises, a wrap_handler
\* rejection included, leaves the two registry maps as they were.
C2_ErrorLeavesRegistry ==
    [][(outcome'.op = "add_method_handler" /\ outcome'.error # "")
            => UNCHANGED <<method_sig_to_selector, method_selector_to_sig>>]_vars

\* the bare entry of a tree, when there is one, is its first entry, and the
\* method entries come in the order their signatures entered the registry
TreeOrdered(tree) ==
    /\ \A i \in 1..Len(tree) : IsBareEntry(tree[i]) => i = 1
    /\ LET sigs == MethodSignatures(tree)
       IN  \A i, j \in 1..Len(sigs) :
            i < j => /\ sigs[i] \in DictKeys(method_sig_to_selector)
                     /\ sigs[j] \in DictKeys(method_sig_to_selector)
                     /\ DictIndex(method_sig_to_selector, sigs[i])
                            < DictIndex(method_sig_to_selector, sigs[j])

\* C7: in every state the bare entry of each tree, when present, is first and
\* the method entries follow in registration order; every call leaves each
\* tree's existing entries in place (the old list is a prefix of the new one).
C7_EntriesKeepOrder ==
    /\ [](TreeOrdered(approval_ast) /\ TreeOrdered(clear_state_ast))
    /\ [][/\ IsPrefix(approval_ast, approval_ast')
          /\ IsPrefix(clear_state_ast, clear_state_ast')]_vars

\* C7 witness: bare entries seeded, two methods registered after them, then a
\* call that was rejected
C7_Witness ==
    /\ Len(approval_ast) = 3
    /\ IsBareEntry(approval_ast[1])
    /\ IsMethodEntry(approval_ast[2])
    /\ IsMethodEntry(approval_ast[3])
    /\ Len(clear_state_ast) >= 2
    /\ IsBareEntry(clear_state_ast[1])
    /\ AddRaised

\* the approval tree of a Router given only a bare NoOp action
OnlyBareNoOp ==
    /\ Len(approval_ast) = 1
    /\ IsBareEntry(approval_ast[1])
    /\ Len(approval_ast[1].branch.nodes) = 1
    /\ approval_ast[1].branch.nodes[1].condition = OnCompletionEq(NoOp)

\* C8: build_program returns exactly when both entry lists are non-empty, and
\* then the Cond over each list and the contract; otherwise it raises and
\* returns nothing.  With only a bare NoOp action the approval tree's one entry
\* is guarded by application_args.length == 0 and the build raises exactly
\* when the clear-state list is empty.
C8_BuildNeedsBothTrees ==
    /\ outcome.op = "build_program" =>
        /\ (outcome.error = "") <=> (approval_ast # <<>> /\ clear_state_ast # <<>>)
        /\ outcome.error # "" => outcome.returned = <<>>
        /\ outcome.error = "" =>
            /\ Len(outcome.returned) = 1
            /\ outcome.returned[1].approval_program = CondExpr(approval_ast)
            /\ outcome.returned[1].clear_state_program = CondExpr(clear_state_ast)
            /\ outcome.returned[1].contract = DictKeyList(method_sig_to_selector)
    /\ OnlyBareNoOp =>
        /\ approval_ast[1].condition = ArgsLengthEq(0)
        /\ outcome.op = "build_program" =>
            ((outcome.error # "") <=> (clear_state_ast = <<>>))
        /\ (outcome.op = "build_program" /\ method_sig_to_selector = <<>>) =>
            ((outcome.error = "") <=>
                (Len(clear_state_ast) = 1 /\ IsBareEntry(clear_state_ast[1])))

\* C8 witness: only a bare NoOp action, no method, and the build has raised
C8_Witness ==
    /\ OnlyBareNoOp
    /\ method_sig_to_selector = <<>>
    /\ clear_state_ast = <<>>
    /\ outcome.op = "build_program"
    /\ outcome.error # ""

\* no two method entries of the tree carry the same signature or selector
SelectorsUnique(tree) ==
    LET sigs == MethodSignatures(tree)
    IN  /\ \A i, j \in 1..Len(sigs) :
            i # j => sigs[i] # sigs[j] /\ checksum4(sigs[i]) # checksum4(sigs[j])
        /\ \A sel \in 0..(SelectorSpace - 1) :
            Cardinality({i \in 1..Len(sigs) : checksum4(sigs[i]) = sel}) <= 1

\* C9: within each tree no two method entries test the same selector or were
\* registered under the same signature, so at most one selector guard matches
\* any args[0].
C9_SelectorsUnique == SelectorsUnique(approval_ast) /\ SelectorsUnique(clear_state_ast)

\* C9 witness: two method entries in a tree, and a collision just rejected
C9_Witness ==
    /\ Len(MethodSignatures(approval_ast)) = 2
    /\ outcome.op = "add_method_handler"
    /\ outcome.error = CollisionError

\* ---- OnCompleteAction

\* C11: constructing an OnCompleteAction raises nothing exactly when a handler
\* is present iff call_config is not NEVER; what is constructed carries the
\* arguments and is either empty or has a handler and a permission.
C11_ActionMatchesConfig ==
    pc = "constructed" =>
        /\ (outcome.error = "") <=>
                ((kwargs.action # <<>>) <=> (kwargs.call_config # NEVER))
        /\ (kwargs.action # <<>> /\ kwargs.call_config = NEVER) => outcome.error # ""
        /\ (kwargs.action = <<>> /\ kwargs.call_config \in {CALL, CREATE, ALL})
                => outcome.error # ""
        /\ outcome.error # "" => outcome.returned = <<>>
        /\ outcome.error = "" =>
            /\ outcome.returned = <<OnCompleteAction(kwargs.action, kwargs.call_config)>>
            /\ \/ oca_is_empty(outcome.returned[1])
               \/ /\ outcome.returned[1].action # <<>>
                  /\ outcome.returned[1].call_config # NEVER

\* C11 witness: a permission without a handler was rejected
C11_Witness ==
    /\ pc = "constructed"
    /\ kwargs.action = <<>>
    /\ kwargs.call_config = CREATE
    /\ outcome.error # ""

\* ---- the registry

\* the two maps hold the same pairs, each the other way round
RegistryInverse ==
    /\ Len(method_sig_to_selector) = Len(method_selector_to_sig)
    /\ Cardinality(DictKeys(method_sig_to_selector)) = Len(method_sig_to_selector)
    /\ Cardinality(DictKeys(method_selector_to_sig)) = Len(method_selector_to_sig)
    /\ \A sig \in DictKeys(method_sig_to_selector) :
        /\ DictGet(method_sig_to_selector, sig) \in DictKeys(method_selector_to_sig)
        /\ DictGet(method_selector_to_sig, DictGet(method_sig_to_selector, sig)) = sig
    /\ \A sel \in DictKeys(method_selector_to_sig) :
        /\ DictGet(method_selector_to_sig, sel) \in DictKeys(method_sig_to_selector)
        /\ DictGet(method_sig_to_selector, DictGet(method_selector_to_sig, sel)) = sel

\* no step removes an entry or gives a registered signature another selector
RegistryGrows ==
    /\ Len(method_sig_to_selector') >= Len(method_sig_to_selector)
    /\ Len(method_selector_to_sig') >= Len(method_selector_to_sig)
    /\ \A sig \in DictKeys(method_sig_to_selector) :
        /\ sig \in DictKeys(method_sig_to_selector')
        /\ DictGet(method_sig_to_selector', sig) = DictGet(method_sig_to_selector, sig)

\* C13: the signature-to-selector and selector-to-signature maps are exact
\* inverses with the same number of entries at all times, the number of
\* entries never decreases and a registered signature keeps its selector.
C13_RegistryInverseAndGrowing == []RegistryInverse /\ [][RegistryGrows]_vars

\* C13 witness: two methods are registered and a third call was turned away
C13_Witness ==
    /\ Len(method_sig_to_selector) = 2
    /\ Len(method_selector_to_sig) = 2
    /\ outcome.op = "add_method_handler"
    /\ outcome.error = "re-registering method detected"

\* ---- the entries one registration appends

\* the entry a guard gives a method: none for 0, the handler alone for 1,
\* the handler behind the asserted guard for an expression
EntriesFor(sig, guard, method_call) ==
    IF IsConst(guard, 0) THEN <<>>
    ELSE <<CondNode(ArgsMethodEq(sig),
                    Body(IF IsExpr(guard) THEN <<guard>> ELSE <<>>,
                         wrap_handler(TRUE, method_call)))>>

\* what a step of a successful add_method_handler does to the two trees
RegistrationAppends ==
    (outcome'.op = "add_method_handler" /\ outcome'.error = "") =>
        LET sig == method_configs'[Len(method_configs')][1]
            mc == method_configs'[Len(method_configs')][2]
            approval_relevant == \E oc \in ApprovalKinds : ConfigFor(mc, oc) # NEVER
            clear_relevant == mc.clear_state # NEVER
            grown_a == Len(approval_ast') - Len(approval_ast)
            grown_c == Len(clear_state_ast') - Len(clear_state_ast)
        IN  /\ Len(method_configs') = Len(method_configs) + 1
            /\ IsPrefix(approval_ast, approval_ast')
            /\ IsPrefix(clear_state_ast, clear_state_ast')
            /\ grown_a \in {0, 1} /\ grown_c \in {0, 1}
            /\ grown_a + grown_c >= 1
            /\ (grown_a = 1) <=> approval_relevant
            /\ (grown_c = 1) <=> clear_relevant
            /\ mc = DefaultMethodConfig => grown_c = 0
            /\ \E h \in RouterHandlers :
                /\ approval_ast' = approval_ast \o EntriesFor(sig, approval_cond(mc), h)
                /\ clear_state_ast' =
                        clear_state_ast \o EntriesFor(sig, clear_state_cond(mc), h)

\* C14: a successful add_method_handler appends at most one entry to each
\* tree and at least one to one of them: an approval entry iff some
\* approval-relevant kind is not NEVER, a clear-state entry iff clear_state
\* is not NEVER (none for the default config), and for the all-ALL config
\* the entries the general guard computation gives.
C14_RegistrationAppends == [][RegistrationAppends]_vars

\* C14 witness: the all-ALL config was registered and both trees end with the
\* method's entry, no guard asserted
C14_Witness ==
    /\ outcome.op = "add_method_handler"
    /\ outcome.error = ""
    /\ method_configs # <<>>
    /\ method_configs[Len(method_configs)][2] = arc4_compliant
    /\ approval_ast # <<>> /\ clear_state_ast # <<>>
    /\ LET sig == method_configs[Len(method_configs)][1]
       IN  /\ approval_ast[Len(approval_ast)].condition = ArgsMethodEq(sig)
           /\ approval_ast[Len(approval_ast)].branch.asserted = <<>>
           /\ clear_state_ast[Len(clear_state_ast)].condition = ArgsMethodEq(sig)
           /\ clear_state_ast[Len(clear_state_ast)].branch.asserted = <<>>

\* ---- method dispatch in the approval program

\* the config a method was registered with permits the call
GuardHolds(mc, app_call) ==
    /\ app_call.on_completion \in ApprovalKinds
    /\ Permits(ConfigFor(mc, app_call.on_completion), app_call.application_id)

\* the entries of a tree that are the method's
EntriesOf(tree, sig) ==
    {i \in 1..Len(tree) : IsMethodEntry(tree[i]) /\ tree[i].condition.method_signature = sig}

\* C12: run on a call with at least one argument whose first argument is the
\* selector of a method with an entry, the approval program runs that entry's
\* handler when the method's config permits the call's on_completion and
\* application id, and fails at that entry's assertion when not: no other
\* entry is taken. A method whose guard for a tree is the constant 0 has no
\* entry in that tree.
C12_SelectorDispatch ==
    /\ pc = "called" /\ call.application_args # <<>> =>
        \A i \in 1..Len(approval_ast) :
            (/\ IsMethodEntry(approval_ast[i])
             /\ checksum4(approval_ast[i].condition.method_signature)
                    = call.application_args[1])
            => LET mc == DictGet(method_configs,
                                 approval_ast[i].condition.method_signature)
               IN  IF GuardHolds(mc, call)
                   THEN result = Result("handler", <<i>>)
                   ELSE /\ result = Result("assertion", <<i>>)
                        /\ approval_ast[i].branch.asserted # <<>>
    /\ \A k \in 1..Len(method_configs) :
        LET sig == method_configs[k][1]
            mc == method_configs[k][2]
        IN  /\ IsConst(approval_cond(mc), 0) => EntriesOf(approval_ast, sig) = {}
            /\ IsConst(clear_state_cond(mc), 0) => EntriesOf(clear_state_ast, sig) = {}
            /\ ~IsConst(approval_cond(mc), 0) => Cardinality(EntriesOf(approval_ast, sig)) = 1
            /\ ~IsConst(clear_state_cond(mc), 0)
                    => Cardinality(EntriesOf(clear_state_ast, sig)) = 1

\* C12 witness: behind a bare-call entry and another method's entry, the
\* called method's guard fails and the program stops at its assertion
C12_Witness ==
    /\ pc = "called"
    /\ call.application_args # <<>>
    /\ result.ran = "assertion"
    /\ Len(result.of) = 1
    /\ result.of[1] >= 3
    /\ IsBareEntry(approval_ast[1])
    /\ IsMethodEntry(approval_ast[result.of[1]])
    /\ checksum4(approval_ast[result.of[1]].condition.method_signature)
            = call.application_args[1]

====
